---- MODULE Spec2Model ----
(***************************************************************************)
(* Bounded pagination and token refresh of the GitHub and Slack            *)
(* integrations:                                                           *)
(*   src/sentry/integrations/github/client.py                              *)
(*   src/sentry/integrations/slack/notify_action.py                        *)
(*                                                                         *)
(* Strings are sequences of symbols; a URL is the sequence of its parts.   *)
(* None is the Python None.                                                *)
(***************************************************************************)
EXTENDS Integers, Sequences, FiniteSets, TLC

VARIABLES
    \* ---- _paging_get_repositories (github/client.py:150-175)
    gh_pc,              \* "idle" | "first" | "loop" | "done"
    provider,           \* the GitHub provider's behaviour, fixed for one call
    gh_requests,        \* number of client_mixin.get calls issued so far
    all_repositories,   \* the accumulated list
    next_url,           \* None or the relative URL of the next page
    gh_iter,            \* iterations of `for _ in range(_MAX_ITERATIONS)` begun
    stderr,             \* diagnostics printed to sys.stderr
    \* ---- _get_rel_next on its own (github/client.py:178-194)
    rel_pc,             \* "idle" | "call" | "done"
    rel_base,           \* the base_url argument
    rel_response,       \* the response argument
    rel_result,         \* what the call did
    \* ---- get_channel_id / _find_matching_conversation (slack/notify_action.py)
    sl_pc,              \* "idle" | "start" | "find" | "found" | "done"
    sl_kind,            \* 0, or the index in Kinds of the listing being searched
    channels_payload,   \* the caller's parameter map, shared by the three searches
    next_params,        \* None, or Some(parameter map of the next request)
    sl_iter,            \* iterations of `for _ in range(_MAX_ITERATIONS)` begun
    sl_requests,        \* session.get calls issued by the current search
    sl_request,         \* None, or Some([url, params]) of the last request sent
    sl_allmore,         \* every page of the current search: ok, no match, a cursor
    find_result,        \* None, or Some([id, did_error]) returned by the search
    sl_return,          \* what get_channel_id returned: None or Some(<<prefix, id>>)
    sl_log,             \* logger.info records
    sl_shared,          \* next_params is the caller's map itself, not a copy
    sl_last_cursor,     \* next_cursor of the last page of the current search
    sl_served,          \* what the provider has answered: a match, a rejection
    \* ---- GitHubClientMixin.get_token (github/client.py:102-128)
    metadata,           \* integration.metadata: access_token and expires_at
    persisted,          \* the metadata last written by integration.save()
    now,                \* datetime.utcnow()
    minted,             \* create_token requests the provider has received
    gt_pc,              \* per caller: where its get_token call stands
    call                \* per caller: the locals and the record of its call

ghVars == <<gh_pc, provider, gh_requests, all_repositories, next_url, gh_iter>>
relVars == <<rel_pc, rel_base, rel_response, rel_result>>
slVars == <<sl_pc, sl_kind, channels_payload, next_params, sl_iter, sl_requests,
            sl_request, sl_allmore, find_result, sl_return, sl_log,
            sl_shared, sl_last_cursor, sl_served>>
tokVars == <<metadata, persisted, now, minted, gt_pc, call>>
vars == <<ghVars, stderr, relVars, slVars, tokVars>>

\* An optional value: None, or Some(v) holding v.
None == <<>>
Some(v) == <<v>>
Val(o) == o[1]

\* ---------------------------------------------------------------- bounds
\* Longest chain of linked pages a provider serves.
MaxPages == 102
\* Latest page whose rel="next" link may leave the base URL.
MaxBad == 2
\* Longest base URL and longest next URL given to _get_rel_next on its own.
MaxBaseLen == 2
MaxUrlLen == 3
\* Last reading of the clock, and most create_token requests served.
MaxNow == 3
MaxMints == 2
\* Longest lifetime (in clock ticks) the provider gives a token.
MaxTtl == 1

\* ------------------------------------------------------------- constants
\* github/client.py:15 and slack/notify_action.py:17
_MAX_ITERATIONS == 100
slack_MAX_ITERATIONS == 100

base_url == <<"https://api.github.com">>

_BAD_NEXT_REL(link, url, base) ==
    <<"Link header", link, "included rel=next", url,
      "that did not start with base URL", base>>

\* ------------------------------------------------------ string helpers
\* str.startswith
startswith(s, prefix) ==
    /\ Len(prefix) <= Len(s)
    /\ SubSeq(s, 1, Len(prefix)) = prefix

\* Positions at which sep occurs in s.
Occurrences(s, sep) ==
    {i \in 1..(Len(s) - Len(sep) + 1) : SubSeq(s, i, i + Len(sep) - 1) = sep}

Min(S) == CHOOSE x \in S : \A y \in S : x <= y

\* str.split(sep, 1): ValueError on an empty separator, else the parts
\* around the first occurrence of sep (one part when sep does not occur).
split1(s, sep) ==
    IF sep = <<>> THEN [raised |-> TRUE, parts |-> <<>>]
    ELSE IF Occurrences(s, sep) = {} THEN [raised |-> FALSE, parts |-> <<s>>]
    ELSE LET i == Min(Occurrences(s, sep))
         IN [raised |-> FALSE,
             parts |-> <<SubSeq(s, 1, i - 1), SubSeq(s, i + Len(sep), Len(s))>>]

\* ------------------------------------------------------- _get_rel_next
\* A response carries `rel` (a map from relation to URL, or no such
\* attribute), its headers and its JSON body.  The result is
\* [raised, value, printed]: whether the call raised, the value returned
\* (None or Some(relative_url)) and the messages printed to stderr.
EmptyMap == [r \in {} |-> <<>>]

_get_rel_next_unchecked(base, response) ==
    LET rel_map == IF response.has_rel THEN response.rel ELSE EmptyMap
    IN IF "next" \notin DOMAIN rel_map
       THEN [raised |-> FALSE, value |-> None, printed |-> <<>>]
       ELSE LET url == rel_map["next"]
                sp == split1(url, base)
            IN IF sp.raised
               THEN [raised |-> TRUE, value |-> None, printed |-> <<>>]
               ELSE [raised |-> FALSE, value |-> Some(sp.parts[Len(sp.parts)]),
                     printed |-> <<>>]

_get_rel_next(base, response) ==
    LET rel_map == IF response.has_rel THEN response.rel ELSE EmptyMap
    IN IF "next" \notin DOMAIN rel_map
       THEN [raised |-> FALSE, value |-> None, printed |-> <<>>]
       ELSE LET url == rel_map["next"]
            IN IF ~startswith(url, base)
               THEN [raised |-> FALSE, value |-> None,
                     printed |-> <<_BAD_NEXT_REL(response.headers_Link, url, base)>>]
               ELSE LET sp == split1(url, base)
                    IN IF sp.raised \/ Len(sp.parts) # 2
                       \* ValueError: empty separator, or the unpacking fails
                       THEN [raised |-> TRUE, value |-> None, printed |-> <<>>]
                       ELSE [raised |-> FALSE, value |-> Some(sp.parts[2]),
                             printed |-> <<>>]

\* ------------------------------------------------- the GitHub provider
\* provider.pages = N > 0: pages 1..N, page k < N linking to page k+1;
\* provider.pages = 0: every page links to the next one, without end.
\* provider.badAt = k > 0: the rel="next" URL of page k is on another host.
\* provider.selfAt = k > 0: the rel="next" URL of page k is page k's own URL.
Providers ==
    {[pages |-> n, badAt |-> b, selfAt |-> r] :
        n \in 0..MaxPages, b \in 0..MaxBad, r \in 0..MaxBad}

HasNext(p, k) == p.pages = 0 \/ k < p.pages \/ p.selfAt = k

\* The 'repositories' list of page k: k % 3 items, so some pages are empty.
PageItems(k) == [i \in 1..(k % 3) |-> <<k, i>>]

RepoPath == "/installation/repositories"
PagePath(k) == <<RepoPath, "?page=", ToString(k)>>

\* The page number each ?page= value names.
PageNumbers ==
    [s \in {ToString(k) : k \in 1..(_MAX_ITERATIONS + MaxPages + 2)} |->
        CHOOSE k \in 1..(_MAX_ITERATIONS + MaxPages + 2) : ToString(k) = s]

\* The page a request for `path` asks for (the first request has no page).
PageOf(path) ==
    IF Len(path) = 1 THEN 1
    ELSE PageNumbers[path[Len(path)]]

NextLinkUrl(p, k) ==
    IF p.badAt = k THEN <<"https://example.org">> \o PagePath(k + 1)
    ELSE IF p.selfAt = k THEN base_url \o PagePath(k)
    ELSE base_url \o PagePath(k + 1)

\* client_mixin.get(path): the provider's response to a request for path.
Respond(p, path) ==
    LET k == PageOf(path)
    IN [repositories |-> PageItems(k),
        has_rel |-> TRUE,
        rel |-> IF HasNext(p, k) THEN [r \in {"next"} |-> NextLinkUrl(p, k)]
                ELSE EmptyMap,
        headers_Link |-> IF HasNext(p, k) THEN Some(<<"<", NextLinkUrl(p, k), ">; rel=next">>)
                         ELSE None]

\* --------------------------------------------- _paging_get_repositories
GhIdle ==
    /\ gh_pc = "idle"
    /\ provider = [pages |-> 1, badAt |-> 0, selfAt |-> 0]
    /\ gh_requests = 0
    /\ all_repositories = <<>>
    /\ next_url = None
    /\ gh_iter = 0

GhInit ==
    /\ gh_pc = "first"
    /\ provider \in Providers
    /\ gh_requests = 0
    /\ all_repositories = <<>>
    /\ next_url = None
    /\ gh_iter = 0

\* all_repositories.extend(response['repositories'])
ExtendPrepends(acc, response) == response.repositories \o acc
Extend(acc, response) == acc \o response.repositories

\* lines 159-165: the first request, outside the loop
GhFirstRequest ==
    /\ gh_pc = "first"
    /\ \E response \in {Respond(provider, <<RepoPath>>)} :
       \E nxt \in {_get_rel_next(base_url, response)} :
          /\ gh_requests' = gh_requests + 1
          /\ all_repositories' = Extend(all_repositories, response)
          /\ next_url' = nxt.value
          /\ stderr' = stderr \o nxt.printed
          /\ gh_pc' = IF nxt.raised THEN "raised" ELSE "loop"
    /\ UNCHANGED <<provider, gh_iter>>

\* lines 167-173: one iteration of the bounded loop that requests a page
GhLoopRequest ==
    /\ gh_pc = "loop"
    /\ gh_iter < _MAX_ITERATIONS
    /\ next_url # None
    /\ \E response \in {Respond(provider, Val(next_url))} :
       \E nxt \in {_get_rel_next(base_url, response)} :
          /\ gh_requests' = gh_requests + 1
          /\ all_repositories' = Extend(all_repositories, response)
          /\ next_url' = nxt.value
          /\ stderr' = stderr \o nxt.printed
          /\ gh_pc' = IF nxt.raised THEN "raised" ELSE "loop"
    /\ gh_iter' = gh_iter + 1
    /\ UNCHANGED provider

\* lines 168-169, 175: break on next_url None, or range exhausted; return
GhReturn ==
    /\ gh_pc = "loop"
    /\ (next_url = None \/ gh_iter >= _MAX_ITERATIONS)
    /\ gh_pc' = "done"
    /\ UNCHANGED <<provider, gh_requests, all_repositories, next_url, gh_iter, stderr>>

\* ------------------------------------------- _get_rel_next on its own
Alphabet == {"a", "b"}
Strings(n) == UNION {[1..m -> Alphabet] : m \in 0..n}

RelResponses ==
    {[repositories |-> <<>>, has_rel |-> h, rel |-> m, headers_Link |-> l] :
        h \in BOOLEAN,
        m \in {EmptyMap} \cup {[r \in {"last"} |-> u] : u \in Strings(1)}
                \cup {[r \in {"next"} |-> u] : u \in Strings(MaxUrlLen)},
        l \in {None, Some(<<"L">>)}}

NoResult == [raised |-> FALSE, value |-> None, printed |-> <<>>]

RelIdle ==
    /\ rel_pc = "idle"
    /\ rel_base = base_url
    /\ rel_response = [repositories |-> <<>>, has_rel |-> FALSE, rel |-> EmptyMap,
                       headers_Link |-> None]
    /\ rel_result = NoResult

\* A base URL is never the empty string.
RelInit ==
    /\ rel_pc = "call"
    /\ rel_base \in Strings(MaxBaseLen) \ {<<>>}
    /\ rel_response \in RelResponses
    /\ rel_result = NoResult

RelCall ==
    /\ rel_pc = "call"
    /\ rel_result' = _get_rel_next(rel_base, rel_response)
    /\ stderr' = stderr \o rel_result'.printed
    /\ rel_pc' = "done"
    /\ UNCHANGED <<rel_base, rel_response>>

\* --------------------------------------------------- the Slack lookup
CHANNEL_PREFIX == "#"
MEMBER_PREFIX == "@"

\* _find_matching_channel, _find_matching_group, _find_matching_user:
\* the logger message, URL and resource type each passes on.
Kinds ==
    << [message |-> "rule.slack.channel_list_failed",
        url |-> "https://slack.com/api/channels.list", resource_type |-> "channels"],
       [message |-> "rule.slack.group_list_failed",
        url |-> "https://slack.com/api/groups.list", resource_type |-> "groups"],
       [message |-> "rule.slack.user_list_failed",
        url |-> "https://slack.com/api/users.list", resource_type |-> "members"] >>

\* The name looked up, and the items a page may hold.
SearchedName == "eng"
Item(n, k, i) == [name |-> n, id |-> <<Kinds[k].resource_type, i>>]
PageLists(k) ==
    { <<>>,
      <<Item("ops", k, 1)>>,
      <<Item("ops", k, 1), Item(SearchedName, k, 2)>>,
      <<Item(SearchedName, k, 3), Item(SearchedName, k, 4)>> }

Cursors == {"", "abc", "def"}

\* resp.json() of one page of kind k.  response_metadata.next_cursor is None
\* when response_metadata or next_cursor is absent.
SlackResponses(k) ==
    {[ok |-> TRUE, error |-> None, items |-> l, next_cursor |-> c] :
        l \in PageLists(k), c \in {None} \cup {Some(x) : x \in Cursors}}
    \cup {[ok |-> FALSE, error |-> Some("rate_limited"), items |-> <<>>,
           next_cursor |-> None]}

\* lines 234-236: the id of the first item named `name`, or None
Matches(items, name) == {i \in 1..Len(items) : items[i].name = name}
FirstMatchTakesLast(items, name) ==
    IF Matches(items, name) = {} THEN None
    ELSE Some(items[CHOOSE i \in Matches(items, name) :
                        \A j \in Matches(items, name) : j <= i].id)

FirstMatch(items, name) ==
    IF Matches(items, name) = {} THEN None
    ELSE Some(items[Min(Matches(items, name))].id)

\* lines 223-225: the loop goes on to request a page
LoopRunsUnbounded(iter, params) == params # None
LoopRunsOnceMore(iter, params) == iter <= slack_MAX_ITERATIONS /\ params # None
LoopRuns(iter, params) == iter < slack_MAX_ITERATIONS /\ params # None

\* asked: the listing URLs requested, in the order of their first request
NothingServed == [match |-> None, rejected |-> None, asked |-> <<>>]

SlIdle ==
    /\ sl_pc = "idle"
    /\ sl_kind = 0
    /\ channels_payload = None
    /\ next_params = None
    /\ sl_iter = 0
    /\ sl_requests = 0
    /\ sl_request = None
    /\ sl_allmore = TRUE
    /\ find_result = None
    /\ sl_return = None
    /\ sl_log = <<>>
    /\ sl_shared = FALSE
    /\ sl_last_cursor = None
    /\ sl_served = NothingServed

SlInit ==
    /\ sl_pc = "start"
    /\ sl_kind = 0
    /\ channels_payload = None
    /\ next_params = None
    /\ sl_iter = 0
    /\ sl_requests = 0
    /\ sl_request = None
    /\ sl_allmore = TRUE
    /\ find_result = None
    /\ sl_return = None
    /\ sl_log = <<>>
    /\ sl_shared = FALSE
    /\ sl_last_cursor = None
    /\ sl_served = NothingServed

\* line 221: copy.deepcopy(original_params): an equal map that is another
\* object (shared: a write to the result is a write to the argument)
deepcopy_same_object(params) == [map |-> params, shared |-> TRUE]
deepcopy(params) == [map |-> params, shared |-> FALSE]

\* lines 219-221: a search starts from a deep copy of original_params
BeginFind(k, original_params) ==
    /\ sl_kind' = k
    /\ next_params' = Some(deepcopy(original_params).map)
    /\ sl_shared' = deepcopy(original_params).shared
    /\ sl_last_cursor' = None
    /\ sl_iter' = 0
    /\ sl_requests' = 0
    /\ sl_allmore' = TRUE
    /\ find_result' = None
    /\ sl_pc' = "find"

\* lines 166-173: the integration does not exist
SlNoIntegration ==
    /\ sl_pc = "start"
    /\ sl_pc' = "done"
    /\ sl_return' = None
    /\ UNCHANGED <<sl_kind, channels_payload, next_params, sl_iter, sl_requests,
                   sl_request, sl_allmore, find_result, sl_log,
                   sl_shared, sl_last_cursor, sl_served>>

\* lines 175-187: build the payload and start the channels search
SlBegin ==
    /\ sl_pc = "start"
    /\ LET payload == [token |-> "access_token", exclude_archived |-> FALSE,
                       exclude_members |-> TRUE, cursor |-> None]
       IN /\ channels_payload' = Some(payload)
          /\ BeginFind(1, payload)
    /\ UNCHANGED <<sl_request, sl_return, sl_log, sl_served>>

\* lines 223-243: one iteration of the loop, for one provider response
SlRequest ==
    /\ sl_pc = "find"
    /\ LoopRuns(sl_iter, next_params)
    /\ \E resp \in SlackResponses(sl_kind) :
        /\ sl_request' = Some([url |-> Kinds[sl_kind].url, params |-> Val(next_params),
                               after |-> sl_last_cursor])
        /\ sl_requests' = sl_requests + 1
        /\ sl_iter' = sl_iter + 1
        /\ sl_last_cursor' = resp.next_cursor
        /\ LET asked == IF sl_requests = 0
                        THEN Append(sl_served.asked, Kinds[sl_kind].url)
                        ELSE sl_served.asked
           IN sl_served' =
               IF ~resp.ok
               THEN [sl_served EXCEPT !.asked = asked, !.rejected =
                        Some([kind |-> sl_kind, requests |-> sl_requests + 1])]
               ELSE IF \E i \in 1..Len(resp.items) : resp.items[i].name = SearchedName
               THEN [sl_served EXCEPT !.asked = asked, !.match =
                        Some([kind |-> sl_kind, items |-> resp.items,
                              requests |-> sl_requests + 1])]
               ELSE [sl_served EXCEPT !.asked = asked]
        /\ IF ~resp.ok
           THEN \* lines 229-232
                /\ sl_log' = Append(sl_log, [message |-> Kinds[sl_kind].message,
                                             error |-> resp.error])
                /\ find_result' = Some([id |-> None, did_error |-> TRUE])
                /\ sl_pc' = "found"
                /\ sl_allmore' = FALSE
                /\ UNCHANGED <<next_params, channels_payload>>
           ELSE IF FirstMatch(resp.items, SearchedName) # None
           THEN \* lines 234-236
                /\ find_result' = Some([id |-> FirstMatch(resp.items, SearchedName),
                                        did_error |-> FALSE])
                /\ sl_pc' = "found"
                /\ sl_allmore' = FALSE
                /\ UNCHANGED <<next_params, channels_payload, sl_log>>
           ELSE \* lines 238-243
                /\ next_params' =
                       IF resp.next_cursor = None THEN None
                       ELSE Some([Val(next_params) EXCEPT !.cursor = resp.next_cursor])
                /\ channels_payload' =
                       IF resp.next_cursor # None /\ sl_shared
                       THEN Some([Val(next_params) EXCEPT !.cursor = resp.next_cursor])
                       ELSE channels_payload
                /\ sl_allmore' = (sl_allmore /\ resp.next_cursor # None)
                /\ UNCHANGED <<find_result, sl_pc, sl_log>>
    /\ UNCHANGED <<sl_kind, sl_return, sl_shared>>

\* lines 224-225, 245: the loop ends without a match
SlFindExhausted ==
    /\ sl_pc = "find"
    /\ ~LoopRuns(sl_iter, next_params)
    /\ find_result' = Some([id |-> None, did_error |-> FALSE])
    /\ sl_pc' = "found"
    /\ UNCHANGED <<sl_kind, channels_payload, next_params, sl_iter, sl_requests,
                   sl_request, sl_allmore, sl_return, sl_log,
                   sl_shared, sl_last_cursor, sl_served>>

\* lines 187-210: what get_channel_id does with the (id, did_error) a search
\* of kind k returned: return a value, or go on to the next kind
OutcomeIgnoresError(r, k) ==
    IF r.id # None
    THEN [returns |-> TRUE,
          value |-> Some(<<IF k = 3 THEN MEMBER_PREFIX ELSE CHANNEL_PREFIX, Val(r.id)>>)]
    ELSE IF k < 3 THEN [returns |-> FALSE, value |-> None]
    ELSE [returns |-> TRUE, value |-> None]

Outcome(r, k) ==
    IF r.did_error THEN [returns |-> TRUE, value |-> None]
    ELSE IF r.id # None
    THEN [returns |-> TRUE,
          value |-> Some(<<IF k = 3 THEN MEMBER_PREFIX ELSE CHANNEL_PREFIX, Val(r.id)>>)]
    ELSE IF k < 3 THEN [returns |-> FALSE, value |-> None]
    ELSE [returns |-> TRUE, value |-> None]

\* lines 187-210: get_channel_id acts on what the search returned
SlAfterFind ==
    /\ sl_pc = "found"
    /\ LET o == Outcome(Val(find_result), sl_kind)
       IN IF o.returns
          THEN /\ sl_return' = o.value
               /\ sl_pc' = "done"
               /\ UNCHANGED <<sl_kind, next_params, sl_iter, sl_requests, sl_allmore,
                              find_result, sl_shared, sl_last_cursor>>
          ELSE /\ BeginFind(sl_kind + 1, Val(channels_payload))
               /\ UNCHANGED sl_return
    /\ UNCHANGED <<channels_payload, sl_request, sl_log, sl_served>>

\* ------------------------------------------------------------ get_token
Callers == {1, 2}

\* A timestamp string: the format it is written in and the instant it names.
\* "S" is '%Y-%m-%dT%H:%M:%S', "SZ" is '%Y-%m-%dT%H:%M:%SZ'.
TimeString(fmt, t) == [fmt |-> fmt, t |-> t]

\* datetime.strptime(s, fmt): ValueError unless s is written in fmt
strptime(s, fmt) ==
    IF s.fmt = fmt THEN [raised |-> FALSE, dt |-> s.t]
    ELSE [raised |-> TRUE, dt |-> 0]

\* datetime.isoformat() of a datetime without microseconds
isoformat_keeps_Z(dt) == TimeString("SZ", dt)

isoformat(dt) == TimeString("S", dt)

\* line 24: the signed assertion of the app
get_jwt == "jwt"

\* lines 135-139: the headers create_token hands to post()
create_token_no_headers == None

create_token_headers == Some([Authorization |-> <<"Bearer", get_jwt>>])

\* lines 94-99: the headers request() sends; `token` is what get_token()
\* returned and is only looked at when no headers were supplied
request_headers(headers, token) ==
    IF headers = None THEN [Authorization |-> <<"token", Val(token)>>]
    ELSE Val(headers)

\* Python truthiness of a token: None and '' are false
Truthy(token) == token # None /\ Val(token) # ""

\* line 114: `not token or expires_at < datetime.utcnow() or force_refresh`,
\* evaluated left to right; comparing None with a datetime raises TypeError.
\* "refresh", "cached" or "TypeError".
NeedsRefreshReversed(token, expires_at, utcnow, force_refresh) ==
    IF ~Truthy(token) THEN "refresh"
    ELSE IF expires_at = None THEN "TypeError"
    ELSE IF Val(expires_at) > utcnow THEN "refresh"
    ELSE IF force_refresh THEN "refresh"
    ELSE "cached"

NeedsRefresh(token, expires_at, utcnow, force_refresh) ==
    IF ~Truthy(token) THEN "refresh"
    ELSE IF expires_at = None THEN "TypeError"
    ELSE IF Val(expires_at) < utcnow THEN "refresh"
    ELSE IF force_refresh THEN "refresh"
    ELSE "cached"

NoCall ==
    [force_refresh |-> FALSE,
     metadata0 |-> [access_token |-> None, expires_at |-> None],
     persisted0 |-> [access_token |-> None, expires_at |-> None],
     seen |-> [access_token |-> None, expires_at |-> None],
     res_token |-> None,
     for_request |-> FALSE, reentered |-> FALSE,
     mint_auth |-> None, sent_auth |-> None,
     now_at |-> 0,
     token |-> None, expires_at |-> None,
     mints |-> 0, mint_failed |-> FALSE, saves |-> 0,
     events |-> <<>>, outcome |-> "none", returned |-> None]

StoredTokens == {None, Some(""), Some("stored")}
StoredExpiries == {None} \cup {Some(TimeString("S", t)) : t \in 0..(MaxNow + 1)}

TokInit ==
    /\ metadata \in [access_token : StoredTokens, expires_at : StoredExpiries]
    /\ persisted = metadata
    /\ now = 0
    /\ minted = 0
    /\ gt_pc = [c \in Callers |-> "idle"]
    /\ call = [c \in Callers |-> NoCall]

TokIdle ==
    /\ metadata = [access_token |-> None, expires_at |-> None]
    /\ persisted = metadata
    /\ now = 0
    /\ minted = 0
    /\ gt_pc = [c \in Callers |-> "off"]
    /\ call = [c \in Callers |-> NoCall]

Terminal == {"returned", "raised", "sent"}
InFlight == {c \in Callers : gt_pc[c] \notin ({"idle", "off"} \cup Terminal)}

\* time passes
Tick ==
    /\ now < MaxNow
    /\ now' = now + 1
    /\ UNCHANGED <<metadata, persisted, minted, gt_pc, call>>

\* line 102: a caller enters get_token(force_refresh), either directly or
\* from request() with no headers (line 96: get_token() with the default
\* force_refresh=False); a request that got its token is sent before the
\* caller does anything else
GtCall(c) ==
    /\ gt_pc[c] \in {"idle"} \cup Terminal
    /\ ~(gt_pc[c] = "returned" /\ call[c].for_request)
    /\ minted + Cardinality(InFlight) < MaxMints
    /\ \E force_refresh, for_request \in BOOLEAN :
        /\ for_request => ~force_refresh
        /\ call' = [call EXCEPT ![c] = [NoCall EXCEPT !.force_refresh = force_refresh,
                                                      !.for_request = for_request,
                                                      !.metadata0 = metadata,
                                                      !.persisted0 = persisted]]
    /\ gt_pc' = [gt_pc EXCEPT ![c] = "check"]
    /\ UNCHANGED <<metadata, persisted, now, minted>>

\* lines 108-114: read the stored token and expiry, decide
GtCheck(c) ==
    /\ gt_pc[c] = "check"
    /\ LET token == metadata.access_token
           stored == metadata.expires_at
           parsed == IF stored = None THEN [raised |-> FALSE, dt |-> 0]
                     ELSE strptime(Val(stored), "S")
           expires_at == IF stored = None THEN None ELSE Some(parsed.dt)
           seenCall == [call[c] EXCEPT !.seen = metadata, !.now_at = now,
                                       !.token = token, !.expires_at = expires_at]
       IN IF parsed.raised
          THEN /\ call' = [call EXCEPT ![c] = [seenCall EXCEPT !.outcome = "ValueError"]]
               /\ gt_pc' = [gt_pc EXCEPT ![c] = "raised"]
          ELSE LET d == NeedsRefresh(token, expires_at, now, call[c].force_refresh)
               IN IF d = "TypeError"
                  THEN /\ call' = [call EXCEPT ![c] =
                                      [seenCall EXCEPT !.outcome = "TypeError"]]
                       /\ gt_pc' = [gt_pc EXCEPT ![c] = "raised"]
                  ELSE /\ call' = [call EXCEPT ![c] = seenCall]
                       /\ gt_pc' = [gt_pc EXCEPT ![c] =
                                      IF d = "refresh" THEN "mint" ELSE "return"]
    /\ UNCHANGED <<metadata, persisted, now, minted>>

\* lines 94-96 for a request() that is given no headers while get_token is
\* minting: the token the nested get_token() hands back, None when the
\* nested call raises or has to mint again itself
ReenteredToken ==
    LET stored == metadata.expires_at
        parsed == IF stored = None THEN [raised |-> FALSE, dt |-> 0]
                  ELSE strptime(Val(stored), "S")
        d == IF parsed.raised THEN "ValueError"
             ELSE NeedsRefresh(metadata.access_token,
                               IF stored = None THEN None ELSE Some(parsed.dt),
                               now, FALSE)
    IN IF d = "cached" THEN metadata.access_token ELSE None

\* lines 93-100, 130-140: the Authorization value of the mint request, None
\* when request() cannot build it
MintAuthorization ==
    IF create_token_headers # None
    THEN Some(request_headers(create_token_headers, None).Authorization)
    ELSE IF ReenteredToken # None
    THEN Some(request_headers(None, ReenteredToken).Authorization)
    ELSE None

\* lines 115-120, 130-140: create_token answers; token and expiry are read
GtMint(c) ==
    /\ gt_pc[c] = "mint"
    /\ minted' = minted + 1
    /\ \E ttl \in 1..MaxTtl :
        LET res == [token |-> ToString(minted + 1),
                    expires_at |-> TimeString("SZ", now + ttl)]
            parsed == strptime(res.expires_at, "SZ")
            mintedCall == [call[c] EXCEPT !.mints = @ + 1,
                                          !.res_token = Some(res.token),
                                          !.reentered = (create_token_headers = None),
                                          !.mint_auth = MintAuthorization,
                                          !.events = Append(@, "mint")]
        IN IF MintAuthorization = None
           THEN /\ call' = [call EXCEPT ![c] =
                               [mintedCall EXCEPT !.res_token = None,
                                                  !.outcome = "RecursionError"]]
                /\ gt_pc' = [gt_pc EXCEPT ![c] = "raised"]
           ELSE IF parsed.raised
           THEN /\ call' = [call EXCEPT ![c] = [mintedCall EXCEPT !.outcome = "ValueError"]]
                /\ gt_pc' = [gt_pc EXCEPT ![c] = "raised"]
           ELSE /\ call' = [call EXCEPT ![c] =
                               [mintedCall EXCEPT !.token = Some(res.token),
                                                  !.expires_at = Some(parsed.dt)]]
                /\ gt_pc' = [gt_pc EXCEPT ![c] = "update"]
    /\ UNCHANGED <<metadata, persisted, now>>

\* line 115: create_token raises (the provider or the transport fails)
GtMintFailsSwallowed(c) ==
    /\ gt_pc[c] = "mint"
    /\ minted' = minted + 1
    /\ call' = [call EXCEPT ![c] = [@ EXCEPT !.mints = @ + 1, !.mint_failed = TRUE,
                                             !.reentered = (create_token_headers = None),
                                             !.mint_auth = MintAuthorization,
                                             !.events = Append(@, "mint")]]
    /\ gt_pc' = [gt_pc EXCEPT ![c] = "return"]
    /\ UNCHANGED <<metadata, persisted, now>>

GtMintFails(c) ==
    /\ gt_pc[c] = "mint"
    /\ minted' = minted + 1
    /\ call' = [call EXCEPT ![c] = [@ EXCEPT !.mints = @ + 1, !.mint_failed = TRUE,
                                             !.reentered = (create_token_headers = None),
                                             !.mint_auth = MintAuthorization,
                                             !.events = Append(@, "mint"),
                                             !.outcome = "ApiError"]]
    /\ gt_pc' = [gt_pc EXCEPT ![c] = "raised"]
    /\ UNCHANGED <<metadata, persisted, now>>

\* lines 122-125: integration.metadata.update(...)
GtUpdate(c) ==
    /\ gt_pc[c] = "update"
    /\ metadata' = [metadata EXCEPT
                       !.access_token = call[c].token,
                       !.expires_at = Some(isoformat(Val(call[c].expires_at)))]
    /\ gt_pc' = [gt_pc EXCEPT ![c] = "save"]
    /\ UNCHANGED <<persisted, now, minted, call>>

\* line 126: integration.save()
GtSave(c) ==
    /\ gt_pc[c] = "save"
    /\ persisted' = metadata
    /\ call' = [call EXCEPT ![c] = [@ EXCEPT !.saves = @ + 1,
                                             !.events = Append(@, "save")]]
    /\ gt_pc' = [gt_pc EXCEPT ![c] = "return"]
    /\ UNCHANGED <<metadata, now, minted>>

\* line 128: return token
GtReturn(c) ==
    /\ gt_pc[c] = "return"
    /\ call' = [call EXCEPT ![c] = [@ EXCEPT !.outcome = "returned",
                                             !.returned = call[c].token,
                                             !.events = Append(@, "return")]]
    /\ gt_pc' = [gt_pc EXCEPT ![c] = "returned"]
    /\ UNCHANGED <<metadata, persisted, now, minted>>

\* lines 94-100: request() with no headers, once get_token() has returned:
\* _request goes out with 'token <token>' as Authorization
RequestSend(c) ==
    /\ gt_pc[c] = "returned"
    /\ call[c].for_request
    /\ call' = [call EXCEPT ![c] =
                   [@ EXCEPT !.sent_auth =
                                 Some(request_headers(None, call[c].returned).Authorization)]]
    /\ gt_pc' = [gt_pc EXCEPT ![c] = "sent"]
    /\ UNCHANGED <<metadata, persisted, now, minted>>

\* ------------------------------------------------------ specifications
InitRepos == GhInit /\ RelIdle /\ SlIdle /\ TokIdle /\ stderr = <<>>
NextRepos ==
    \/ GhFirstRequest /\ UNCHANGED <<relVars, slVars, tokVars>>
    \/ GhLoopRequest /\ UNCHANGED <<relVars, slVars, tokVars>>
    \/ GhReturn /\ UNCHANGED <<relVars, slVars, tokVars>>
SpecRepos == InitRepos /\ [][NextRepos]_vars

InitRel == RelInit /\ GhIdle /\ SlIdle /\ TokIdle /\ stderr = <<>>
NextRel == RelCall /\ UNCHANGED <<ghVars, slVars, tokVars>>
SpecRel == InitRel /\ [][NextRel]_vars

InitSlack == SlInit /\ GhIdle /\ RelIdle /\ TokIdle /\ stderr = <<>>
NextSlack ==
    \/ SlNoIntegration /\ UNCHANGED <<ghVars, relVars, tokVars, stderr>>
    \/ SlBegin /\ UNCHANGED <<ghVars, relVars, tokVars, stderr>>
    \/ SlRequest /\ UNCHANGED <<ghVars, relVars, tokVars, stderr>>
    \/ SlFindExhausted /\ UNCHANGED <<ghVars, relVars, tokVars, stderr>>
    \/ SlAfterFind /\ UNCHANGED <<ghVars, relVars, tokVars, stderr>>
SpecSlack == InitSlack /\ [][NextSlack]_vars

\* One caller at a time: a single caller of get_token, and the clock.
NotToken == <<ghVars, relVars, slVars, stderr>>
InitToken == TokInit /\ GhIdle /\ RelIdle /\ SlIdle /\ stderr = <<>>
NextToken ==
    \/ GtCall(1) /\ UNCHANGED NotToken
    \/ GtCheck(1) /\ UNCHANGED NotToken
    \/ GtMint(1) /\ UNCHANGED NotToken
    \/ GtMintFails(1) /\ UNCHANGED NotToken
    \/ GtUpdate(1) /\ UNCHANGED NotToken
    \/ GtSave(1) /\ UNCHANGED NotToken
    \/ GtReturn(1) /\ UNCHANGED NotToken
    \/ RequestSend(1) /\ UNCHANGED NotToken
    \/ Tick /\ UNCHANGED NotToken
SpecToken == InitToken /\ [][NextToken]_vars

\* Two callers of get_token on the same integration, interleaved.
NextConc ==
    \/ \E c \in Callers : GtCall(c) /\ UNCHANGED NotToken
    \/ \E c \in Callers : GtCheck(c) /\ UNCHANGED NotToken
    \/ \E c \in Callers : GtMint(c) /\ UNCHANGED NotToken
    \/ \E c \in Callers : GtMintFails(c) /\ UNCHANGED NotToken
    \/ \E c \in Callers : GtUpdate(c) /\ UNCHANGED NotToken
    \/ \E c \in Callers : GtSave(c) /\ UNCHANGED NotToken
    \/ \E c \in Callers : GtReturn(c) /\ UNCHANGED NotToken
    \/ \E c \in Callers : RequestSend(c) /\ UNCHANGED NotToken
    \/ Tick /\ UNCHANGED NotToken
SpecConc == InitToken /\ [][NextConc]_vars

\* ================================================================ claims

RECURSIVE ConcatPages(_)
\* The 'repositories' lists of pages 1..n, one after the other.
ConcatPages(n) == IF n = 0 THEN <<>> ELSE ConcatPages(n - 1) \o PageItems(n)

\* The provider serves provider.pages pages, each linked to the next by a
\* rel="next" URL under the base URL, the last one without a link.
LinkedChain ==
    /\ provider.pages > 0
    /\ (provider.badAt = 0 \/ provider.badAt >= provider.pages)
    /\ (provider.selfAt = 0 \/ provider.selfAt > provider.pages)

\* C1: one call of get_repositories issues at most 100 page requests, the
\* first one counted; against a provider whose every response links to a
\* next page it issues exactly 100 and returns.
C1_AtMostHundredRequests ==
    /\ gh_requests <= _MAX_ITERATIONS
    /\ (gh_pc = "done" /\ provider.pages = 0 /\ provider.badAt = 0
            /\ provider.selfAt = 0
            => gh_requests = _MAX_ITERATIONS)

\* C2: one search (_find_matching_conversation, one kind) issues at most 100
\* page requests; when every page answers ok, holds no match and carries a
\* non-null next_cursor, it issues exactly 100 and returns (None, False).
C2_SearchStopsAtHundred ==
    /\ sl_requests <= slack_MAX_ITERATIONS
    /\ (sl_pc = "found" /\ sl_allmore
            => /\ sl_requests = slack_MAX_ITERATIONS
               /\ find_result = Some([id |-> None, did_error |-> FALSE]))

C2_Witness ==
    /\ sl_pc = "found"
    /\ sl_allmore
    /\ sl_requests = slack_MAX_ITERATIONS
    /\ Val(sl_request).params.cursor # None

\* The refresh rule as specified: the token is missing or empty, or
\* force_refresh is set, or now >= expires_at (an absent expiry counts as
\* expired).
RefreshSpecified(k) ==
    \/ ~Truthy(k.seen.access_token)
    \/ k.force_refresh
    \/ k.seen.expires_at = None
    \/ k.now_at >= Val(k.seen.expires_at).t

\* C3: with an expiry stored, a get_token call invokes the mint iff the token
\* is missing or empty, or force_refresh is set, or now >= expires_at; the
\* token is refreshed when now equals expires_at.
C3_MintIffRefreshSpecified ==
    (gt_pc[1] \in Terminal /\ call[1].seen.expires_at # None
        /\ call[1].outcome # "ValueError")
        => (call[1].mints >= 1 <=> RefreshSpecified(call[1]))

\* C4: when no expires_at is stored, get_token does not raise: it mints
\* once and returns the new token, also when a non-empty token is stored.
C4_AbsentExpiryMintsOnce ==
    (gt_pc[1] \in Terminal /\ call[1].seen.expires_at = None /\ ~call[1].mint_failed)
        => /\ call[1].outcome = "returned"
           /\ call[1].mints = 1
           /\ call[1].returned = call[1].res_token

\* A call that found a non-empty token whose expiry lies strictly after
\* the clock reading of the check, without force_refresh.
FreshCall(k) ==
    /\ Truthy(k.seen.access_token)
    /\ k.seen.expires_at # None
    /\ Val(k.seen.expires_at).t > k.now_at
    /\ ~k.force_refresh

\* C5: a call that finds a non-empty token with expires_at strictly in the
\* future, without force_refresh, returns the stored token and has no side
\* effect: no mint, no save, integration.metadata unchanged.
C5_FreshTokenReturnedUntouched ==
    (gt_pc[1] \in Terminal /\ FreshCall(call[1]))
        => /\ call[1].outcome = "returned"
           /\ call[1].returned = call[1].metadata0.access_token
           /\ call[1].mints = 0
           /\ call[1].saves = 0
           /\ metadata = call[1].metadata0
           /\ persisted = call[1].persisted0

C5_Witness ==
    /\ gt_pc[1] = "returned"
    /\ FreshCall(call[1])
    /\ call[1].returned = Some("stored")
    /\ now > call[1].now_at

\* C6: when the stored token is expired or missing, or force_refresh is set,
\* and the mint succeeds, the call mints once, then saves once, then returns;
\* it returns the minted token, which is the stored access_token afterwards.
\* (Stated for a store that holds no token, or a token with its expiry.)
C6_RefreshMintsSavesReturns ==
    (gt_pc[1] \in Terminal /\ call[1].outcome # "ValueError"
        /\ (Truthy(call[1].seen.access_token) => call[1].seen.expires_at # None)
        /\ RefreshSpecified(call[1]) /\ ~call[1].mint_failed)
        => /\ call[1].mints = 1
           /\ call[1].saves = 1
           /\ call[1].events = <<"mint", "save", "return">>
           /\ call[1].returned = call[1].res_token
           /\ metadata.access_token = call[1].returned

\* C7: when create_token fails, get_token fails with that error, after one
\* mint request and no save, and leaves the stored access_token and
\* expires_at as they were before the call.
C7_MintFailurePropagates ==
    call[1].mint_failed
        => /\ gt_pc[1] = "raised"
           /\ call[1].outcome = "ApiError"
           /\ call[1].mints = 1
           /\ call[1].saves = 0
           /\ call[1].events = <<"mint">>
           /\ metadata = call[1].metadata0
           /\ persisted = call[1].persisted0

C7_Witness ==
    /\ gt_pc[1] = "raised"
    /\ call[1].mint_failed
    /\ call[1].metadata0.access_token = Some("stored")
    /\ metadata.access_token = Some("stored")

\* Callers whose call has minted a token and has not returned yet.
HoldingMinted == {c \in Callers : gt_pc[c] \in {"update", "save", "return"}
                                  /\ call[c].mints = 1}

\* C8: concurrent get_token calls on one integration are serialized: no two
\* calls in progress have each minted a token for the same stored token and
\* expiry.
C8_RefreshesSerialized ==
    \A c1 \in HoldingMinted : \A c2 \in HoldingMinted :
        c1 # c2 => call[c1].seen # call[c2].seen

\* U = B + R for some R
StripsTo(B, U, R) == B \o R = U
HasPrefix(B, U) == \E n \in 0..Len(U) : SubSeq(U, 1, n) = B

\* C9: _get_rel_next never raises; without a 'next' relation it returns
\* None; when the next URL U starts with the base URL B it returns R with
\* B + R = U; otherwise it returns None and prints one diagnostic naming the
\* Link header, U and B.
C9_NextPath ==
    rel_pc = "done" =>
        LET rel_map == IF rel_response.has_rel THEN rel_response.rel ELSE EmptyMap
            r == rel_result
        IN /\ ~r.raised
           /\ "next" \notin DOMAIN rel_map => r.value = None /\ r.printed = <<>>
           /\ "next" \in DOMAIN rel_map =>
                LET U == rel_map["next"]
                IN IF HasPrefix(rel_base, U)
                   THEN /\ r.value # None
                        /\ StripsTo(rel_base, U, Val(r.value))
                        /\ r.printed = <<>>
                   ELSE /\ r.value = None
                        /\ Len(r.printed) = 1
                        /\ r.printed[1][2] = rel_response.headers_Link
                        /\ r.printed[1][4] = U
                        /\ r.printed[1][6] = rel_base
           /\ stderr = r.printed

C9_Witness ==
    /\ rel_pc = "done"
    /\ rel_result.value # None
    /\ Len(rel_base) = MaxBaseLen
    /\ Len(Val(rel_result.value)) > 0
    /\ rel_base \o Val(rel_result.value) = rel_response.rel["next"]

KindOrder == <<"https://slack.com/api/channels.list",
               "https://slack.com/api/groups.list",
               "https://slack.com/api/users.list">>

\* The id of the first item of a page that bears the searched name.
IdOfFirstNamed(items) ==
    LET i == CHOOSE i \in 1..Len(items) :
                 /\ items[i].name = SearchedName
                 /\ \A j \in 1..(i - 1) : items[j].name # SearchedName
    IN items[i].id

\* C11: the kinds are asked in the order channels.list, groups.list,
\* users.list; once a page holds an item with the searched name no further
\* request is issued (no later page, no later kind) and the result is that
\* item's id, prefixed '#' for a channel or group and '@' for a member.
C11_FirstMatchWins ==
    /\ sl_served.asked = SubSeq(KindOrder, 1, Len(sl_served.asked))
    /\ sl_request # None => Val(sl_request).url = KindOrder[Len(sl_served.asked)]
    /\ sl_served.match # None =>
         LET m == Val(sl_served.match)
         IN /\ sl_pc \in {"found", "done"}
            /\ sl_kind = m.kind
            /\ Len(sl_served.asked) = m.kind
            /\ sl_requests = m.requests
            /\ sl_pc = "done" =>
                 sl_return = Some(<<IF m.kind = 3 THEN "@" ELSE "#",
                                    IdOfFirstNamed(m.items)>>)

C11_Witness ==
    /\ sl_pc = "done"
    /\ sl_served.match # None
    /\ Val(sl_served.match).kind = 2
    /\ Val(sl_served.match).requests = 2
    /\ Len(Val(sl_served.match).items) = 2
    /\ sl_return # None
    /\ Val(sl_return)[1] = "#"

\* C12: when page K of a kind's listing answers ok=false the lookup stops at
\* once: K requests were made for that kind, none follows for it or for a
\* later kind, and nothing is returned as a match.
C12_RejectionStopsLookup ==
    sl_served.rejected # None =>
        LET r == Val(sl_served.rejected)
        IN /\ sl_pc \in {"found", "done"}
           /\ sl_kind = r.kind
           /\ Len(sl_served.asked) = r.kind
           /\ sl_requests = r.requests
           /\ find_result = Some([id |-> None, did_error |-> TRUE])
           /\ sl_served.match = None
           /\ sl_pc = "done" => sl_return = None

C12_Witness ==
    /\ sl_pc = "done"
    /\ sl_served.rejected # None
    /\ Val(sl_served.rejected).kind = 2
    /\ Val(sl_served.rejected).requests = 3
    /\ sl_served.asked = SubSeq(KindOrder, 1, 2)

\* What get_channel_id returns when all three kinds were searched to the end
\* without error and without a match (line 210).
NotFoundValue == Outcome([id |-> None, did_error |-> FALSE], 3).value

\* C13: what get_channel_id returns after a provider rejection differs from
\* what it returns when no kind holds the name.
C13_RejectionDistinctFromNotFound ==
    (sl_pc = "done" /\ sl_served.rejected # None) => sl_return # NotFoundValue

\* A search that used up its iterations while the provider still gave a
\* cursor, and one that ended because a page carried no next_cursor.
CapReached ==
    /\ sl_pc = "found"
    /\ sl_served.match = None /\ sl_served.rejected = None
    /\ next_params # None

\* What _find_matching_conversation returns when pagination ends normally
\* (break at line 225, return at line 245).
ExhaustedResult == Some([id |-> None, did_error |-> FALSE])

\* C14: the outcome of a traversal tells the cap reached apart from
\* pagination exhausted normally (and both from a provider rejection).
C14_CapDistinctFromExhausted ==
    CapReached => find_result # ExhaustedResult

\* C19: the request for page k+1 of a kind carries the next_cursor page k
\* returned and otherwise the caller's parameters; the caller's map is
\* never modified, and the first request of a kind carries no cursor.
C19_CursorThreadedNoAliasing ==
    /\ channels_payload # None =>
         Val(channels_payload) = [token |-> "access_token", exclude_archived |-> FALSE,
                                  exclude_members |-> TRUE, cursor |-> None]
    /\ sl_request # None =>
         LET q == Val(sl_request)
         IN /\ q.params.cursor = q.after
            /\ [q.params EXCEPT !.cursor = None] =
                   [token |-> "access_token", exclude_archived |-> FALSE,
                    exclude_members |-> TRUE, cursor |-> None]
            /\ sl_requests = 1 /\ sl_pc = "find" => q.params.cursor = None

C19_Witness ==
    /\ sl_pc = "find"
    /\ sl_kind = 3
    /\ sl_requests = 2
    /\ Val(sl_request).params.cursor = Some("abc")
    /\ Val(sl_request).after = Some("abc")
    /\ Val(channels_payload).cursor = None

\* Page provider.badAt is served and carries a rel="next" URL outside the
\* base URL.
ForeignLinkServed ==
    /\ provider.badAt > 0
    /\ HasNext(provider, provider.badAt)
    /\ (provider.pages = 0 \/ provider.badAt <= provider.pages)
    /\ (provider.selfAt = 0 \/ provider.selfAt >= provider.badAt)

\* C15: when page k carries a rel="next" URL that does not start with the
\* base URL, get_repositories requests nothing after page k and returns,
\* without raising, the items of pages 1..k in order.
C15_ForeignLinkEndsWithPartialResult ==
    ForeignLinkServed =>
        /\ gh_pc # "raised"
        /\ gh_requests <= provider.badAt
        /\ gh_pc = "done" =>
             /\ gh_requests = provider.badAt
             /\ all_repositories = ConcatPages(provider.badAt)
             /\ Len(stderr) = 1

C15_Witness ==
    /\ gh_pc = "done"
    /\ provider.badAt = 2
    /\ provider.pages = 0
    /\ gh_requests = 2
    /\ all_repositories = <<<<1, 1>>, <<2, 1>>, <<2, 2>>>>
    /\ Len(stderr) = 1

\* A store that is empty, or holds a token together with its expiry.
WellFormedStore(m) ==
    \/ m.access_token = None /\ m.expires_at = None
    \/ Truthy(m.access_token) /\ m.expires_at # None

\* get_token calls, one after the other, on a store that starts well formed.
InitStore == InitToken /\ WellFormedStore(metadata)
SpecStore == InitStore /\ [][NextToken]_vars

\* What get_token left in a store: a non-empty token only with an expiry,
\* and an expiry that line 112 parses.
Readable(m) ==
    /\ Truthy(m.access_token) => m.expires_at # None
    /\ m.expires_at # None => ~strptime(Val(m.expires_at), "S").raised

\* C16: from a store that is empty or holds a token with its expiry, after
\* any sequence of get_token calls the store holds a non-empty access_token
\* only together with an expires_at, written in the format the next call
\* parses; no call fails on reading the store.
C16_StoreStaysReadable ==
    /\ Readable(metadata)
    /\ Readable(persisted)
    /\ call[1].outcome \notin {"ValueError", "TypeError"}

C16_Witness ==
    /\ gt_pc[1] = "returned"
    /\ call[1].seen.access_token = Some("1")
    /\ call[1].seen.expires_at = Some(TimeString("S", 1))
    /\ call[1].mints = 0
    /\ call[1].returned = Some("1")

\* C17: the mint request carries the signed assertion as its only
\* credential: create_token passes its own headers, so request() does not
\* call get_token during a mint, the cached token is not sent on a mint
\* request, and the assertion is never written to integration.metadata.
C17_MintCarriesOnlyTheAssertion ==
    /\ call[1].mints >= 1 => call[1].mint_auth = Some(<<"Bearer", get_jwt>>)
    /\ call[1].mints = 0 => call[1].mint_auth = None
    /\ ~call[1].reentered
    /\ call[1].outcome # "RecursionError"
    /\ call[1].mints <= 1
    /\ metadata.access_token # Some(get_jwt)
    /\ persisted.access_token # Some(get_jwt)

C17_Witness ==
    /\ gt_pc[1] = "returned"
    /\ call[1].force_refresh
    /\ call[1].seen.access_token = Some("stored")
    /\ call[1].seen.expires_at # None
    /\ Val(call[1].seen.expires_at).t > call[1].now_at
    /\ call[1].mint_auth = Some(<<"Bearer", "jwt">>)
    /\ metadata.access_token = Some("1")

\* C18: a request made with no headers supplied is sent with the token its
\* own get_token call returned, so never with a stored token whose expiry
\* was already past when that get_token call read the clock.
C18_RequestSendsCheckedToken ==
    /\ call[1].sent_auth # None => gt_pc[1] = "sent"
    /\ gt_pc[1] = "sent" =>
        /\ call[1].for_request
        /\ call[1].outcome = "returned"
        /\ call[1].sent_auth = Some(<<"token", Val(call[1].returned)>>)
        /\ \/ /\ call[1].mints = 1
              /\ call[1].returned = call[1].res_token
           \/ /\ call[1].mints = 0
              /\ call[1].returned = call[1].seen.access_token
              /\ call[1].seen.expires_at # None
              /\ Val(call[1].seen.expires_at).t >= call[1].now_at

C18_Witness ==
    /\ gt_pc[1] = "sent"
    /\ call[1].mints = 0
    /\ call[1].now_at > 0
    /\ call[1].sent_auth = Some(<<"token", "stored">>)

\* One call of get_repositories or one call of get_channel_id, against any
\* of the providers; every HTTP call returns, so a call that can take its
\* next step takes it.
InitPaging == InitRepos \/ InitSlack
NextPaging ==
    \/ GhFirstRequest /\ UNCHANGED <<relVars, slVars, tokVars>>
    \/ GhLoopRequest /\ UNCHANGED <<relVars, slVars, tokVars>>
    \/ GhReturn /\ UNCHANGED <<relVars, slVars, tokVars>>
    \/ SlNoIntegration /\ UNCHANGED <<ghVars, relVars, tokVars, stderr>>
    \/ SlBegin /\ UNCHANGED <<ghVars, relVars, tokVars, stderr>>
    \/ SlRequest /\ UNCHANGED <<ghVars, relVars, tokVars, stderr>>
    \/ SlFindExhausted /\ UNCHANGED <<ghVars, relVars, tokVars, stderr>>
    \/ SlAfterFind /\ UNCHANGED <<ghVars, relVars, tokVars, stderr>>
SpecPagingFair == InitPaging /\ [][NextPaging]_vars /\ WF_vars(NextPaging)

\* C20: every call of get_repositories and of get_channel_id terminates,
\* whatever the provider serves (next links or cursors that repeat, are
\* empty strings, or never end): no loop passes its iteration cap, and a
\* call that has started ends.
C20_CallsTerminate ==
    /\ [](gh_iter <= _MAX_ITERATIONS /\ sl_iter <= slack_MAX_ITERATIONS)
    /\ (gh_pc = "first" ~> gh_pc \in {"done", "raised"})
    /\ (sl_pc = "start" ~> sl_pc = "done")

C20_Witness ==
    /\ sl_pc = "done"
    /\ sl_kind = 3
    /\ sl_iter = slack_MAX_ITERATIONS
    /\ sl_request # None
    /\ Val(sl_request).after = Some("")
    /\ Val(sl_request).params.cursor = Some("")
    /\ sl_last_cursor = Some("")


====
